---------------------------- MODULE Spec2Model ----------------------------
(***************************************************************************)
(* The camera subsystem of the globe engine: ArcBallCamera (look-at),      *)
(* FirstPersonCamera (free) and Navigator, as a state machine over a heap  *)
(* of camera objects, the Position objects they point to, one view matrix  *)
(* handed in by the application and the globe's projection mode.           *)
(*                                                                         *)
(* Numbers are integers: degrees for the angles, metres for altitude and   *)
(* range.  The geometry library (Angle, WWMath, Matrix, Line, Globe) is    *)
(* not part of the camera sources; its primitives are modelled from their  *)
(* documented contracts and are marked so where they are defined.          *)
(***************************************************************************)
EXTENDS Integers, FiniteSets, Sequences, TLC

(***************************************************************************)
(* Bounds of the model.                                                    *)
(***************************************************************************)
\* An angle handed to applyLimits is off its base value by at most this many full turns.
MaxTurns == 1

\* Camera objects the heap can hold.
MaxCameras == 3

\* Direct field assignments the application makes in one behaviour.
MaxWrites == 1

\* Calls (constructions, method calls, assignments) the application makes in one behaviour.
MaxCalls == 3

(***************************************************************************)
(* Program constants.                                                      *)
(***************************************************************************)
\* Number.MAX_VALUE, the upper bound handed to WWMath.clamp: the largest number of the model.
NumberMaxValue == 2147483647

\* wwd.globe.equatorialRadius; 2 * pi * 6378137 is the 40075016 of applyLimits' comment.
equatorialRadius == 6378137

\* The offset between the two tilt conventions (tilt - 90, tilt + 90).
TiltOffset == 90

(***************************************************************************)
(* Primitives of the geometry library.                                     *)
(***************************************************************************)
\* WWMath.clamp(value, minimum, maximum)
clamp(value, minimum, maximum) ==
    IF value < minimum THEN minimum
    ELSE IF value > maximum THEN maximum
    ELSE value

\* Angle.normalizedDegrees(degrees): the angle in (-180, 180] that differs from
\* degrees by a multiple of 360.
normalizedDegrees(degrees) ==
    LET angle == degrees % 360
    IN  IF angle > 180 THEN angle - 360 ELSE angle

\* Angle.normalizedDegreesLongitude(degrees): as normalizedDegrees, for a longitude.
normalizedDegreesLongitude(degrees) ==
    LET lon == degrees % 360
    IN  IF lon > 180 THEN lon - 360 ELSE lon

\* 2 * Math.PI * r, rounded down: 2 pi = 6.283185307 in fixed point, the product
\* split so that no intermediate exceeds 32 bits.
TwoPiTimes(r) ==
    LET a == r \div 1000
        b == r % 1000
    IN  6 * r + 283 * a + ((185307 * a + 283185 * b) \div 1000000)

(***************************************************************************)
(* The logical fields of a camera, as applyLimits sees them: the fields of *)
(* its position object and its own scalars.  An ArcBallCamera has a range; *)
(* a FirstPersonCamera has none (its range accessor is the altitude).      *)
(***************************************************************************)
ArcBall == "ArcBallCamera"
FirstPerson == "FirstPersonCamera"

\* ArcBallCamera.prototype.applyLimits, with a plausible slip: the altitude
\* clamp reads this.range instead of this.position.altitude.
ArcBallCameraApplyLimitsAltitudeFromRange(f, is2D) ==
    LET latitude  == clamp(f.latitude, -90, 90)
        longitude == normalizedDegreesLongitude(f.longitude)
        altitude  == clamp(f.range, 0, NumberMaxValue)
        range     == clamp(f.range, 1, NumberMaxValue)
        heading   == normalizedDegrees(f.heading)
        tilt      == clamp(f.tilt, 0, 90)
        roll      == normalizedDegrees(f.roll)
        maxRange  == TwoPiTimes(equatorialRadius)
    IN  [latitude |-> latitude, longitude |-> longitude, altitude |-> altitude,
         heading |-> heading,
         tilt |-> IF is2D THEN 0 ELSE tilt,
         range |-> IF is2D THEN clamp(range, 1, maxRange) ELSE range,
         roll |-> roll]

\* ArcBallCamera.prototype.applyLimits without the range clamp of line 169.
ArcBallCameraApplyLimitsNoRangeClamp(f, is2D) ==
    LET maxRange == TwoPiTimes(equatorialRadius)
    IN  [latitude |-> clamp(f.latitude, -90, 90),
         longitude |-> normalizedDegreesLongitude(f.longitude),
         altitude |-> clamp(f.altitude, 0, NumberMaxValue),
         heading |-> normalizedDegrees(f.heading),
         tilt |-> IF is2D THEN 0 ELSE clamp(f.tilt, 0, 90),
         range |-> IF is2D THEN clamp(f.range, 1, maxRange) ELSE f.range,
         roll |-> normalizedDegrees(f.roll)]

\* ArcBallCamera.prototype.applyLimits with the 2D block applied in every mode.
ArcBallCameraApplyLimitsAlways2D(f, is2D) ==
    LET maxRange == TwoPiTimes(equatorialRadius)
    IN  [latitude |-> clamp(f.latitude, -90, 90),
         longitude |-> normalizedDegreesLongitude(f.longitude),
         altitude |-> clamp(f.altitude, 0, NumberMaxValue),
         heading |-> normalizedDegrees(f.heading),
         tilt |-> 0,
         range |-> clamp(clamp(f.range, 1, NumberMaxValue), 1, maxRange),
         roll |-> normalizedDegrees(f.roll)]

\* ArcBallCamera.prototype.applyLimits: the fields it leaves, from the fields it finds.
ArcBallCameraApplyLimits(f, is2D) ==
    LET \* Clamp latitude to between -90 and +90, and normalize longitude.
        latitude  == clamp(f.latitude, -90, 90)
        longitude == normalizedDegreesLongitude(f.longitude)
        \* Clamp altitude to values greater than 0.
        altitude  == clamp(f.altitude, 0, NumberMaxValue)
        \* Clamp range to values greater than 1.
        range     == clamp(f.range, 1, NumberMaxValue)
        heading   == normalizedDegrees(f.heading)
        tilt      == clamp(f.tilt, 0, 90)
        roll      == normalizedDegrees(f.roll)
        \* Apply 2D limits when the globe is 2D.
        maxRange  == TwoPiTimes(equatorialRadius)
    IN  [latitude |-> latitude, longitude |-> longitude, altitude |-> altitude,
         heading |-> heading,
         tilt |-> IF is2D THEN 0 ELSE tilt,
         range |-> IF is2D THEN clamp(range, 1, maxRange) ELSE range,
         roll |-> roll]

\* FirstPersonCamera.prototype.applyLimits without the tilt clamp of line 178.
FirstPersonCameraApplyLimitsNoTiltClamp(f, is2D) ==
    [latitude |-> clamp(f.latitude, -90, 90),
     longitude |-> normalizedDegreesLongitude(f.longitude),
     altitude |-> clamp(f.altitude, 0, NumberMaxValue),
     tilt |-> f.tilt,
     heading |-> normalizedDegrees(f.heading),
     roll |-> normalizedDegrees(f.roll)]

\* FirstPersonCamera.prototype.applyLimits with the 2D branch of ArcBallCamera's:
\* altitude capped at 2 pi equatorialRadius and tilt forced to 0 under a 2D globe.
FirstPersonCameraApplyLimitsFlat(f, is2D) ==
    [latitude |-> clamp(f.latitude, -90, 90),
     longitude |-> normalizedDegreesLongitude(f.longitude),
     altitude |-> IF is2D
                  THEN clamp(clamp(f.altitude, 0, NumberMaxValue), 0, TwoPiTimes(equatorialRadius))
                  ELSE clamp(f.altitude, 0, NumberMaxValue),
     tilt |-> IF is2D THEN 0 ELSE clamp(f.tilt, -90, 90),
     heading |-> normalizedDegrees(f.heading),
     roll |-> normalizedDegrees(f.roll)]

\* FirstPersonCamera.prototype.applyLimits; the globe's mode is not read.
FirstPersonCameraApplyLimits(f, is2D) ==
    [latitude |-> clamp(f.latitude, -90, 90),
     longitude |-> normalizedDegreesLongitude(f.longitude),
     altitude |-> clamp(f.altitude, 0, NumberMaxValue),
     tilt |-> clamp(f.tilt, -90, 90),
     heading |-> normalizedDegrees(f.heading),
     roll |-> normalizedDegrees(f.roll)]


(***************************************************************************)
(* Matrix, Vec3 and Line, on the model's globe.  A point is the triple     *)
(* <<x, y, z>> of the position it stands for; the eye of a look-at view    *)
(* lies on the vertical through its pivot, range times the sign of the     *)
(* cosine of the tilt above it, and a local frame is the same everywhere,  *)
(* so a view decomposes against any point of its line of sight into the    *)
(* heading and tilt it was composed from.  Exact when the camera looks     *)
(* straight down; elsewhere the horizontal part of the offset is dropped.  *)
(***************************************************************************)
\* new Position(latitude, longitude, altitude)
Position(latitude, longitude, altitude) ==
    [latitude |-> latitude, longitude |-> longitude, altitude |-> altitude]

\* new Vec3(x, y, z)
Vec3(x, y, z) == <<x, y, z>>

\* Matrix.fromIdentity()
IdentityMatrix == [identity |-> TRUE]

\* globe.computePointFromPosition
computePointFromPosition(p) == Vec3(p.longitude, p.latitude, p.altitude)

\* globe.computePositionFromPoint
computePositionFromPoint(v) == Position(v[2], v[1], v[3])

\* The sign of cos(tilt), tilt in degrees from straight down.
CosSign(tilt) == IF tilt < 90 THEN 1 ELSE IF tilt = 90 THEN 0 ELSE -1

\* matrix.setToIdentity(); matrix.multiplyByLookAtModelview(lookAtPosition, range,
\* heading, tilt, roll, globe): the view, named by its eye point and its angles.
multiplyByLookAtModelview(lookAtPosition, range, heading, tilt, roll) ==
    [identity |-> FALSE,
     eyePoint |-> Vec3(lookAtPosition.longitude, lookAtPosition.latitude,
                       lookAtPosition.altitude + range * CosSign(tilt)),
     heading |-> heading, tilt |-> tilt, roll |-> roll]

\* matrix.extractEyePoint(result)
extractEyePoint(m) == m.eyePoint

\* matrix.extractForwardVector(result)
extractForwardVector(m) == Vec3(0, 0, 0 - CosSign(m.tilt))

\* line.pointAt(distance, result): origin + distance * direction
pointAt(origin, direction, distance) ==
    Vec3(origin[1] + distance * direction[1],
         origin[2] + distance * direction[2],
         origin[3] + distance * direction[3])

\* matrix.extractViewingParameters(origin, roll, globe, result)
extractViewingParameters(m, origin, roll) ==
    [origin |-> computePositionFromPoint(origin),
     heading |-> m.heading, tilt |-> m.tilt, roll |-> roll]

\* The rotation part of the view m is the identity: the eye is over latitude 0,
\* longitude 0 and looks straight down with north up and no roll.
IdentityRotation(m) ==
    /\ ~m.identity
    /\ m.eyePoint[1] = 0 /\ m.eyePoint[2] = 0
    /\ m.heading = 0 /\ m.tilt = 0 /\ m.roll = 0

\* The translation part of such a view: the eye is on the z axis, its altitude
\* above the globe's equatorial radius from the centre.
Translation(m) == Vec3(0, 0, 0 - (equatorialRadius + m.eyePoint[3]))

(***************************************************************************)
(* The heap.                                                               *)
(***************************************************************************)
VARIABLES
    cameras,    \* camera id -> the camera object, NoCamera while not constructed
    positions,  \* position id -> the Position object; camera c's constructor makes position c
    scratch,    \* camera id -> its _scratchMatrix, _scratchVector and _ray
    is2D,       \* wwd.globe.is2D()
    navigator,  \* the Navigator object: its _camera, NoNavigator while not constructed
    matrix,     \* the application's Matrix, handed to createViewMatrix
    writes,     \* direct field assignments made so far
    calls,      \* calls made so far
    ret         \* the last call: what was called, on what, how it ended

vars == <<cameras, positions, scratch, is2D, navigator, matrix, writes, calls, ret>>

CameraIds == 1 .. MaxCameras
NoCamera == [kind |-> "none"]
NoPosition == [none |-> TRUE]
NoScratch == [none |-> TRUE]
NoNavigator == [constructed |-> FALSE]
\* An argument left out of a call (undefined): a camera, a globe context, a matrix.
Missing == 0
TheWorldWindow == "wwd"
MissingWorldWindow == "undefined"
TheMatrix == "matrix"
MissingMatrix == "undefined"

\* The heap as one value, so that a method's statements compose.
Heap == [cameras |-> cameras, positions |-> positions, scratch |-> scratch]

Allocated(h) == {c \in CameraIds : h.cameras[c].kind # "none"}
OfKind(h, kind) == {c \in CameraIds : h.cameras[c].kind = kind}

\* The logical fields of camera c: those of the Position it points to and its scalars.
Fields(h, c) ==
    LET cam == h.cameras[c]
        p   == h.positions[cam.position]
    IN  IF cam.kind = ArcBall
        THEN [latitude |-> p.latitude, longitude |-> p.longitude, altitude |-> p.altitude,
              heading |-> cam.heading, tilt |-> cam.tilt, range |-> cam.range,
              roll |-> cam.roll]
        ELSE [latitude |-> p.latitude, longitude |-> p.longitude, altitude |-> p.altitude,
              tilt |-> cam.tilt, heading |-> cam.heading, roll |-> cam.roll]

\* Camera c's fields set to f: the position fields go to the Position object it points to.
WithFields(h, c, f) ==
    LET cam == h.cameras[c]
        p   == Position(f.latitude, f.longitude, f.altitude)
        nc  == IF cam.kind = ArcBall
               THEN [cam EXCEPT !.heading = f.heading, !.tilt = f.tilt,
                                !.range = f.range, !.roll = f.roll]
               ELSE [cam EXCEPT !.heading = f.heading, !.tilt = f.tilt, !.roll = f.roll]
    IN  [h EXCEPT !.cameras[c] = nc, !.positions[cam.position] = p]

\* The element of a one-element set: names an intermediate result, computed once.
The(S) == CHOOSE x \in S : TRUE

\* camera.applyLimits(), on the heap.
applyLimits(h, c, flat) ==
    IF h.cameras[c].kind = ArcBall
    THEN The({WithFields(h, c, g) : g \in {ArcBallCameraApplyLimits(Fields(h, c), flat)}})
    ELSE The({WithFields(h, c, g) : g \in {FirstPersonCameraApplyLimits(Fields(h, c), flat)}})

(***************************************************************************)
(* Constructors.                                                           *)
(***************************************************************************)
\* The lowest camera id not yet in use.
FreeId(h) == CHOOSE c \in CameraIds \ Allocated(h) : \A d \in CameraIds \ Allocated(h) : c <= d

\* new ArcBallCamera(wwd), wwd present: the object made in slot c.
ArcBallCamera(h, c, wwd) ==
    [h EXCEPT !.cameras[c] = [kind |-> ArcBall, position |-> c, heading |-> 0, tilt |-> 0,
                              range |-> 10000000, roll |-> 0, wwd |-> wwd],
              !.positions[c] = Position(30, -110, 0),
              !.scratch[c] = [matrix |-> IdentityMatrix, vector |-> Vec3(0, 0, 0)]]

\* new FirstPersonCamera(wwd), wwd present: the object made in slot c.
FirstPersonCamera(h, c, wwd) ==
    [h EXCEPT !.cameras[c] = [kind |-> FirstPerson, position |-> c, heading |-> 0,
                              tilt |-> 0, roll |-> 0, wwd |-> wwd],
              !.positions[c] = Position(30, -110, 1000),
              !.scratch[c] = [matrix |-> IdentityMatrix, vector |-> Vec3(0, 0, 0),
                              rayOrigin |-> Vec3(0, 0, 0), rayDirection |-> Vec3(0, 0, 0)]]

(***************************************************************************)
(* Methods, as functions from the heap before to the heap after.           *)
(***************************************************************************)
\* The look-at view of an ArcBallCamera with the range left out.
ArcBallViewNoRange(f) ==
    multiplyByLookAtModelview(Position(f.latitude, f.longitude, f.altitude),
                              0, f.heading, f.tilt, f.roll)

\* The look-at view of a FirstPersonCamera with the tilt passed on as it is.
FirstPersonViewNoOffset(f) ==
    multiplyByLookAtModelview(Position(f.latitude, f.longitude, f.altitude),
                              0, f.heading, f.tilt, f.roll)

\* The look-at view of an ArcBallCamera with fields f.
ArcBallView(f) ==
    multiplyByLookAtModelview(Position(f.latitude, f.longitude, f.altitude),
                              f.range, f.heading, f.tilt, f.roll)

\* The look-at view of a FirstPersonCamera with fields f: range 0, tilt + 90.
FirstPersonView(f) ==
    multiplyByLookAtModelview(Position(f.latitude, f.longitude, f.altitude),
                              0, f.heading, f.tilt + TiltOffset, f.roll)

\* ArcBallCamera.prototype.createViewMatrix building the matrix before the limits apply.
ArcBallCameraCreateViewMatrixRaw(h, c, flat) ==
    [heap |-> applyLimits(h, c, flat), matrix |-> ArcBallView(Fields(h, c))]

\* ArcBallCamera.prototype.createViewMatrix(matrix), matrix present: the heap it
\* leaves and the matrix it sets.
ArcBallCameraCreateViewMatrix(h, c, flat) ==
    The({[heap |-> h1, matrix |-> ArcBallView(Fields(h1, c))] : h1 \in {applyLimits(h, c, flat)}})

\* FirstPersonCamera.prototype.createViewMatrix(matrix), matrix present.
FirstPersonCameraCreateViewMatrix(h, c, flat) ==
    The({[heap |-> h1, matrix |-> FirstPersonView(Fields(h1, c))] : h1 \in {applyLimits(h, c, flat)}})

createViewMatrix(h, c, flat) ==
    IF h.cameras[c].kind = ArcBall
    THEN ArcBallCameraCreateViewMatrix(h, c, flat)
    ELSE FirstPersonCameraCreateViewMatrix(h, c, flat)

\* ArcBallCamera.prototype.copy without the assignment of range.
ArcBallCameraCopyNoRange(h, c, camera) ==
    [h EXCEPT !.positions[h.cameras[c].position] = h.positions[h.cameras[camera].position],
              !.cameras[c].tilt = h.cameras[camera].tilt,
              !.cameras[c].heading = h.cameras[camera].heading,
              !.cameras[c].roll = h.cameras[camera].roll]

\* ArcBallCamera.prototype.copy(camera), camera present; position.copy(source)
\* overwrites the fields of this camera's Position object.
ArcBallCameraCopy(h, c, camera) ==
    [h EXCEPT !.positions[h.cameras[c].position] = h.positions[h.cameras[camera].position],
              !.cameras[c].tilt = h.cameras[camera].tilt,
              !.cameras[c].heading = h.cameras[camera].heading,
              !.cameras[c].range = h.cameras[camera].range,
              !.cameras[c].roll = h.cameras[camera].roll]

\* FirstPersonCamera.prototype.copy(camera), camera present.
FirstPersonCameraCopy(h, c, camera) ==
    [h EXCEPT !.positions[h.cameras[c].position] = h.positions[h.cameras[camera].position],
              !.cameras[c].heading = h.cameras[camera].heading,
              !.cameras[c].tilt = h.cameras[camera].tilt,
              !.cameras[c].roll = h.cameras[camera].roll]

copy(h, c, camera) ==
    IF h.cameras[c].kind = ArcBall
    THEN ArcBallCameraCopy(h, c, camera)
    ELSE FirstPersonCameraCopy(h, c, camera)

\* toFirstPerson with the eye point added into this._scratchVector instead of
\* overwriting it.
ToFirstPersonWritesIntoStaleVector(r, c, camera, offset) ==
    LET stale    == r.heap.scratch[c].vector
        eye      == extractEyePoint(r.matrix)
        eyePoint == Vec3(stale[1] + eye[1], stale[2] + eye[2], stale[3] + eye[3])
        params   == extractViewingParameters(r.matrix, eyePoint, r.heap.cameras[c].roll)
    IN  [r.heap EXCEPT !.scratch[c].matrix = r.matrix,
                       !.scratch[c].vector = eyePoint,
                       !.positions[r.heap.cameras[camera].position] = params.origin,
                       !.cameras[camera].heading = params.heading,
                       !.cameras[camera].tilt = params.tilt - offset,
                       !.cameras[camera].roll = params.roll]

\* The statements of toFirstPerson between createViewMatrix and applyLimits: r is
\* what createViewMatrix(this._scratchMatrix) left, offset what is taken off the tilt.
ToFirstPersonWrites(r, c, camera, offset) ==
    LET eyePoint == extractEyePoint(r.matrix)
        params   == extractViewingParameters(r.matrix, eyePoint, r.heap.cameras[c].roll)
    IN  [r.heap EXCEPT !.scratch[c].matrix = r.matrix,
                       !.scratch[c].vector = eyePoint,
                       !.positions[r.heap.cameras[camera].position] = params.origin,
                       !.cameras[camera].heading = params.heading,
                       !.cameras[camera].tilt = params.tilt - offset,
                       !.cameras[camera].roll = params.roll]

\* ArcBallCamera.prototype.toFirstPerson without the tilt offset.
toFirstPersonNoOffset(h, c, camera, flat) ==
    The({The({applyLimits(h4, camera, flat) : h4 \in {ToFirstPersonWrites(r, c, camera, 0)}}) :
         r \in {ArcBallCameraCreateViewMatrix(h, c, flat)}})

\* ArcBallCamera.prototype.toFirstPerson with the tilt offset added instead of
\* taken off.
toFirstPersonOffsetAdded(h, c, camera, flat) ==
    The({The({applyLimits(h4, camera, flat) :
              h4 \in {ToFirstPersonWrites(r, c, camera, 0 - TiltOffset)}}) :
         r \in {ArcBallCameraCreateViewMatrix(h, c, flat)}})

\* ArcBallCamera.prototype.toFirstPerson(camera), camera present.
toFirstPerson(h, c, camera, flat) ==
    The({The({applyLimits(h4, camera, flat) :
              h4 \in {ToFirstPersonWrites(r, c, camera, TiltOffset)}}) :
         r \in {ArcBallCameraCreateViewMatrix(h, c, flat)}})

\* toArcBall without the assignment of roll.
ToArcBallWritesKeepsRoll(r, c, arcBallCamera) ==
    LET origin      == extractEyePoint(r.matrix)
        direction   == extractForwardVector(r.matrix)
        lookAtPoint == pointAt(origin, direction, r.heap.cameras[arcBallCamera].range)
        params      == extractViewingParameters(r.matrix, lookAtPoint, r.heap.cameras[c].roll)
    IN  [r.heap EXCEPT !.scratch[c].matrix = r.matrix,
                       !.scratch[c].rayOrigin = origin,
                       !.scratch[c].rayDirection = direction,
                       !.scratch[c].vector = lookAtPoint,
                       !.positions[r.heap.cameras[arcBallCamera].position] = params.origin,
                       !.cameras[arcBallCamera].heading = params.heading,
                       !.cameras[arcBallCamera].tilt = params.tilt]

\* toArcBall with a tilt offset of its own: params.tilt + 90.
ToArcBallWritesWithOffset(r, c, arcBallCamera) ==
    LET origin      == extractEyePoint(r.matrix)
        direction   == extractForwardVector(r.matrix)
        lookAtPoint == pointAt(origin, direction, r.heap.cameras[arcBallCamera].range)
        params      == extractViewingParameters(r.matrix, lookAtPoint, r.heap.cameras[c].roll)
    IN  [r.heap EXCEPT !.scratch[c].matrix = r.matrix,
                       !.scratch[c].rayOrigin = origin,
                       !.scratch[c].rayDirection = direction,
                       !.scratch[c].vector = lookAtPoint,
                       !.positions[r.heap.cameras[arcBallCamera].position] = params.origin,
                       !.cameras[arcBallCamera].heading = params.heading,
                       !.cameras[arcBallCamera].tilt = params.tilt + TiltOffset,
                       !.cameras[arcBallCamera].roll = params.roll]

\* The statements of toArcBall between createViewMatrix and applyLimits: r is what
\* createViewMatrix(this._scratchMatrix) left.
ToArcBallWrites(r, c, arcBallCamera) ==
    LET origin      == extractEyePoint(r.matrix)
        direction   == extractForwardVector(r.matrix)
        lookAtPoint == pointAt(origin, direction, r.heap.cameras[arcBallCamera].range)
        params      == extractViewingParameters(r.matrix, lookAtPoint, r.heap.cameras[c].roll)
    IN  [r.heap EXCEPT !.scratch[c].matrix = r.matrix,
                       !.scratch[c].rayOrigin = origin,
                       !.scratch[c].rayDirection = direction,
                       !.scratch[c].vector = lookAtPoint,
                       !.positions[r.heap.cameras[arcBallCamera].position] = params.origin,
                       !.cameras[arcBallCamera].heading = params.heading,
                       !.cameras[arcBallCamera].tilt = params.tilt,
                       !.cameras[arcBallCamera].roll = params.roll]

\* FirstPersonCamera.prototype.toArcBall(arcBallCamera), arcBallCamera present.
toArcBall(h, c, arcBallCamera, flat) ==
    The({The({applyLimits(h4, arcBallCamera, flat) : h4 \in {ToArcBallWrites(r, c, arcBallCamera)}}) :
         r \in {FirstPersonCameraCreateViewMatrix(h, c, flat)}})

(***************************************************************************)
(* The calls the application makes.  Each records in ret what was called,  *)
(* the receiver's and the argument's fields as the call found them, and    *)
(* how the call ended.                                                     *)
(***************************************************************************)
Ret(op, this, arg, status, pre, argPre, value) ==
    [op |-> op, this |-> this, arg |-> arg, status |-> status,
     pre |-> pre, argPre |-> argPre, value |-> value]

Ok == "ok"
ArgumentError == "ArgumentError"
TypeError == "TypeError"
None == <<>>

FieldsOrNone(h, c) == IF c \in Allocated(h) THEN Fields(h, c) ELSE None

\* One more call, within the model's bound.
Call ==
    /\ calls < MaxCalls
    /\ calls' = calls + 1

SetHeapInit(h) ==
    /\ cameras = h.cameras
    /\ positions = h.positions
    /\ scratch = h.scratch

SetHeap(h) ==
    /\ cameras' = h.cameras
    /\ positions' = h.positions
    /\ scratch' = h.scratch

\* A call that checks its argument only after it has applied the limits.
ThrowsAfterLimits(op, this, arg, error, pre, argPre) ==
    /\ ret' = Ret(op, this, arg, error, pre, argPre, Missing)
    /\ \E h1 \in {IF this \in Allocated(Heap) THEN applyLimits(Heap, this, is2D) ELSE Heap} :
          SetHeap(h1)
    /\ UNCHANGED <<is2D, navigator, matrix, writes>>

\* A call that throws: nothing but ret changes.
Throws(op, this, arg, error, pre, argPre) ==
    /\ ret' = Ret(op, this, arg, error, pre, argPre, Missing)
    /\ UNCHANGED <<cameras, positions, scratch, is2D, navigator, matrix, writes>>

\* new ArcBallCamera(wwd) without the check of wwd.
NewArcBallCameraUnchecked(wwd) ==
    /\ Call
    /\ Allocated(Heap) # CameraIds
    /\ \E n \in {FreeId(Heap)} :
          /\ SetHeap(ArcBallCamera(Heap, n, wwd))
          /\ ret' = Ret("new ArcBallCamera", n, wwd, Ok, None, None, n)
    /\ UNCHANGED <<is2D, navigator, matrix, writes>>

\* new ArcBallCamera(wwd)
NewArcBallCamera(wwd) ==
    /\ Call
    /\ IF wwd = MissingWorldWindow
       THEN Throws("new ArcBallCamera", Missing, wwd, ArgumentError, None, None)
       ELSE /\ Allocated(Heap) # CameraIds
            /\ \E n \in {FreeId(Heap)} :
                  /\ SetHeap(ArcBallCamera(Heap, n, wwd))
                  /\ ret' = Ret("new ArcBallCamera", n, wwd, Ok, None, None, n)
            /\ UNCHANGED <<is2D, navigator, matrix, writes>>

\* new FirstPersonCamera(wwd)
NewFirstPersonCamera(wwd) ==
    /\ Call
    /\ IF wwd = MissingWorldWindow
       THEN Throws("new FirstPersonCamera", Missing, wwd, ArgumentError, None, None)
       ELSE /\ Allocated(Heap) # CameraIds
            /\ \E n \in {FreeId(Heap)} :
                  /\ SetHeap(FirstPersonCamera(Heap, n, wwd))
                  /\ ret' = Ret("new FirstPersonCamera", n, wwd, Ok, None, None, n)
            /\ UNCHANGED <<is2D, navigator, matrix, writes>>

\* new Navigator(camera)
NewNavigator(camera) ==
    /\ Call
    /\ IF camera = Missing
       THEN Throws("new Navigator", Missing, camera, ArgumentError, None, None)
       ELSE /\ ~navigator.constructed
            /\ navigator' = [constructed |-> TRUE, camera |-> camera]
            /\ ret' = Ret("new Navigator", Missing, camera, Ok, None,
                          Fields(Heap, camera), Missing)
            /\ UNCHANGED <<cameras, positions, scratch, is2D, matrix, writes>>

\* camera.applyLimits()
ApplyLimits(c) ==
    /\ Call
    /\ \E h1 \in {applyLimits(Heap, c, is2D)} : SetHeap(h1)
    /\ ret' = Ret("applyLimits", c, Missing, Ok, Fields(Heap, c), None, Missing)
    /\ UNCHANGED <<is2D, navigator, matrix, writes>>

\* camera.createViewMatrix(matrix): m is the application's matrix, or missing.
CreateViewMatrix(c, m) ==
    /\ Call
    /\ IF m = MissingMatrix
       THEN Throws("createViewMatrix", c, m, ArgumentError, Fields(Heap, c), None)
       ELSE /\ \E r \in {createViewMatrix(Heap, c, is2D)} :
                  /\ SetHeap(r.heap)
                  /\ matrix' = r.matrix
            /\ ret' = Ret("createViewMatrix", c, m, Ok, Fields(Heap, c), None, m)
            /\ UNCHANGED <<is2D, navigator, writes>>

\* camera.copy(source)
Copy(c, camera) ==
    /\ Call
    /\ IF camera = Missing
       THEN Throws("copy", c, camera, ArgumentError, Fields(Heap, c), None)
       ELSE /\ \E h1 \in {copy(Heap, c, camera)} : SetHeap(h1)
            /\ ret' = Ret("copy", c, camera, Ok, Fields(Heap, c), Fields(Heap, camera), c)
            /\ UNCHANGED <<is2D, navigator, matrix, writes>>

\* camera.clone(dest): camera = camera || new Camera(this.wwd); camera.copy(this)
Clone(c, camera) ==
    /\ Call
    /\ IF camera = Missing
       THEN /\ Allocated(Heap) # CameraIds
            /\ \E n \in {FreeId(Heap)} :
                  /\ \E h1 \in {IF cameras[c].kind = ArcBall
                                THEN ArcBallCamera(Heap, n, cameras[c].wwd)
                                ELSE FirstPersonCamera(Heap, n, cameras[c].wwd)} :
                        \E h2 \in {copy(h1, n, c)} : SetHeap(h2)
                  /\ ret' = Ret("clone", c, camera, Ok, Fields(Heap, c), None, n)
       ELSE /\ \E h1 \in {copy(Heap, camera, c)} : SetHeap(h1)
            /\ ret' = Ret("clone", c, camera, Ok, Fields(Heap, c), Fields(Heap, camera), camera)
    /\ UNCHANGED <<is2D, navigator, matrix, writes>>

\* arcBallCamera.toFirstPerson(camera)
ToFirstPerson(c, camera) ==
    /\ Call
    /\ IF camera = Missing
       THEN Throws("toFirstPerson", c, camera, ArgumentError, Fields(Heap, c), None)
       ELSE /\ \E h1 \in {toFirstPerson(Heap, c, camera, is2D)} : SetHeap(h1)
            /\ ret' = Ret("toFirstPerson", c, camera, Ok, Fields(Heap, c),
                          Fields(Heap, camera), camera)
            /\ UNCHANGED <<is2D, navigator, matrix, writes>>

\* firstPersonCamera.toArcBall(arcBallCamera)
ToArcBall(c, arcBallCamera) ==
    /\ Call
    /\ IF arcBallCamera = Missing
       THEN Throws("toArcBall", c, arcBallCamera, ArgumentError, Fields(Heap, c), None)
       ELSE /\ \E h1 \in {toArcBall(Heap, c, arcBallCamera, is2D)} : SetHeap(h1)
            /\ ret' = Ret("toArcBall", c, arcBallCamera, Ok, Fields(Heap, c),
                          Fields(Heap, arcBallCamera), arcBallCamera)
            /\ UNCHANGED <<is2D, navigator, matrix, writes>>

\* A direct assignment, camera.position.latitude = v, camera.heading = v, ...; a
\* FirstPersonCamera's range is the accessor of its position's altitude.
AssignField(h, c, field, v) ==
    IF field \in {"latitude", "longitude", "altitude"}
    THEN [h EXCEPT !.positions[h.cameras[c].position][field] = v]
    ELSE IF field = "range" /\ h.cameras[c].kind = FirstPerson
    THEN [h EXCEPT !.positions[h.cameras[c].position].altitude = v]
    ELSE [h EXCEPT !.cameras[c][field] = v]

FieldNames == {"latitude", "longitude", "altitude", "heading", "tilt", "range", "roll"}

\* The values the application assigns.
AssignedValues(field) ==
    CASE field = "latitude"  -> {60}
      [] field = "longitude" -> {200}
      [] field = "altitude"  -> {-1}
      [] field = "heading"   -> {270}
      [] field = "tilt"      -> {-45}
      [] field = "range"     -> {0}
      [] field = "roll"      -> {-180}

\* One more direct assignment, within the model's bound.
Write ==
    /\ writes < MaxWrites
    /\ writes' = writes + 1

\* camera.<field> = v
SetField(c, field, v) ==
    /\ Call
    /\ Write
    /\ \E h1 \in {AssignField(Heap, c, field, v)} : SetHeap(h1)
    /\ ret' = Ret("set " \o field, c, v, Ok, Fields(Heap, c), None, Missing)
    /\ UNCHANGED <<is2D, navigator, matrix>>

\* The application switches the globe between its 3D and its 2D projection.
SetProjection ==
    /\ Call
    /\ is2D' = ~is2D
    /\ ret' = Ret("set projection", Missing, Missing, Ok, None, None, Missing)
    /\ UNCHANGED <<cameras, positions, scratch, navigator, matrix, writes>>

(***************************************************************************)
(* Navigator.                                                              *)
(***************************************************************************)
\* navigator.camera = camera (the setter stores whatever it is given)
NavigatorSetCamera(camera) ==
    /\ Call
    /\ navigator.constructed
    /\ navigator' = [navigator EXCEPT !.camera = camera]
    /\ ret' = Ret("set camera", Missing, camera, Ok, None, None, Missing)
    /\ UNCHANGED <<cameras, positions, scratch, is2D, matrix, writes>>

\* navigator.lookAtLocation = position: this.camera.position = position, where
\* position is the Position object p, read from a camera.
NavigatorSetLookAtLocation(p) ==
    /\ Call
    /\ Write
    /\ navigator.constructed
    /\ IF navigator.camera = Missing
       THEN /\ ret' = Ret("set lookAtLocation", Missing, p, TypeError, None, None, Missing)
            /\ UNCHANGED <<cameras, positions, scratch>>
       ELSE /\ cameras' = [cameras EXCEPT ![navigator.camera].position = p]
            /\ ret' = Ret("set lookAtLocation", Missing, p, Ok,
                          Fields(Heap, navigator.camera), None, Missing)
            /\ UNCHANGED <<positions, scratch>>
    /\ UNCHANGED <<is2D, navigator, matrix>>

\* navigator.range = v, navigator.heading = v, navigator.tilt = v, navigator.roll = v
NavigatorSetField(field, v) ==
    /\ Call
    /\ Write
    /\ navigator.constructed
    /\ IF navigator.camera = Missing
       THEN /\ ret' = Ret("set " \o field, Missing, v, TypeError, None, None, Missing)
            /\ UNCHANGED <<cameras, positions, scratch>>
       ELSE /\ \E h1 \in {AssignField(Heap, navigator.camera, field, v)} : SetHeap(h1)
            /\ ret' = Ret("set " \o field, Missing, v, Ok,
                          Fields(Heap, navigator.camera), None, Missing)
    /\ UNCHANGED <<is2D, navigator, matrix>>

\* Navigator.prototype.getAsFirstPersonCamera taking the copy branch whatever the
\* active camera is.
getAsFirstPersonCameraAlwaysCopy(h, active, target, flat) ==
    copy(h, target, active)

\* Navigator.prototype.getAsFirstPersonCamera(camera), this.camera the camera active:
\* the heap it leaves, with target the camera it returns.
getAsFirstPersonCamera(h, active, target, flat) ==
    IF h.cameras[active].kind = FirstPerson
    THEN copy(h, target, active)
    ELSE toFirstPerson(h, active, target, flat)

\* Navigator.prototype.getAsArcBallCamera(camera), this.camera the camera active.
getAsArcBallCamera(h, active, target, flat) ==
    IF h.cameras[active].kind = FirstPerson
    THEN toArcBall(h, active, target, flat)
    ELSE copy(h, target, active)

\* navigator.getAsFirstPersonCamera(camera):
\* camera = camera || new FirstPersonCamera(this.camera.wwd)
GetAsFirstPersonCamera(camera) ==
    /\ Call
    /\ navigator.constructed
    /\ IF navigator.camera = Missing
       THEN Throws("getAsFirstPersonCamera", Missing, camera, TypeError,
                   None, FieldsOrNone(Heap, camera))
       ELSE /\ camera = Missing => Allocated(Heap) # CameraIds
            /\ \E target \in {IF camera = Missing THEN FreeId(Heap) ELSE camera} :
                  /\ \E h1 \in {IF camera = Missing
                                THEN FirstPersonCamera(Heap, target, cameras[navigator.camera].wwd)
                                ELSE Heap} :
                        \E h2 \in {getAsFirstPersonCamera(h1, navigator.camera, target, is2D)} :
                           SetHeap(h2)
                  /\ ret' = Ret("getAsFirstPersonCamera", navigator.camera, camera, Ok,
                                Fields(Heap, navigator.camera), FieldsOrNone(Heap, camera),
                                target)
            /\ UNCHANGED <<is2D, navigator, matrix, writes>>

\* navigator.getAsArcBallCamera(camera):
\* camera = camera || new ArcBallCamera(this.camera.wwd)
GetAsArcBallCamera(camera) ==
    /\ Call
    /\ navigator.constructed
    /\ IF navigator.camera = Missing
       THEN Throws("getAsArcBallCamera", Missing, camera, TypeError,
                   None, FieldsOrNone(Heap, camera))
       ELSE /\ camera = Missing => Allocated(Heap) # CameraIds
            /\ \E target \in {IF camera = Missing THEN FreeId(Heap) ELSE camera} :
                  /\ \E h1 \in {IF camera = Missing
                                THEN ArcBallCamera(Heap, target, cameras[navigator.camera].wwd)
                                ELSE Heap} :
                        \E h2 \in {getAsArcBallCamera(h1, navigator.camera, target, is2D)} :
                           SetHeap(h2)
                  /\ ret' = Ret("getAsArcBallCamera", navigator.camera, camera, Ok,
                                Fields(Heap, navigator.camera), FieldsOrNone(Heap, camera),
                                target)
            /\ UNCHANGED <<is2D, navigator, matrix, writes>>

(***************************************************************************)
(* The application: two cameras constructed and posed on a 3D globe, then   *)
(* any calls.                                                              *)
(***************************************************************************)
\* The poses the application has given its two cameras, those of the test suite:
\* the conversion tests' poses, the out-of-limits poses of the limit tests, and
\* the nadir pose of the view matrix tests beside the conversion test's.
ArcBallTestPose ==
    [latitude |-> 45, longitude |-> -100, altitude |-> 1000000, heading |-> 50, tilt |-> 70,
     range |-> 6000000, roll |-> 45]
ArcBallLimitsPose ==
    [latitude |-> 100, longitude |-> 185, altitude |-> -1000, heading |-> 370, tilt |-> 100,
     range |-> -6000, roll |-> -270]
FirstPersonTestPose ==
    [latitude |-> 30, longitude |-> -110, altitude |-> 75000, tilt |-> -25, heading |-> 60,
     roll |-> 45]
FirstPersonNadirPose ==
    [latitude |-> 0, longitude |-> 0, altitude |-> 10000000, tilt |-> -90, heading |-> 0,
     roll |-> 0]
FirstPersonLimitsPose ==
    [latitude |-> 100, longitude |-> 185, altitude |-> -1000, tilt |-> 100, heading |-> 370,
     roll |-> -270]

Poses ==
    { <<ArcBallTestPose, FirstPersonTestPose>>,
      <<ArcBallLimitsPose, FirstPersonLimitsPose>>,
      <<ArcBallTestPose, FirstPersonNadirPose>> }

EmptyHeap ==
    [cameras |-> [c \in CameraIds |-> NoCamera],
     positions |-> [c \in CameraIds |-> NoPosition],
     scratch |-> [c \in CameraIds |-> NoScratch]]

Init ==
    /\ \E pose \in Poses :
          SetHeapInit(WithFields(WithFields(
              FirstPersonCamera(ArcBallCamera(EmptyHeap, 1, TheWorldWindow), 2, TheWorldWindow),
              1, pose[1]), 2, pose[2]))
    /\ is2D = FALSE
    /\ navigator = NoNavigator
    /\ matrix = IdentityMatrix
    /\ writes = 0
    /\ calls = 0
    /\ ret = Ret("init", Missing, Missing, Ok, None, None, Missing)

Next ==
    \/ \E wwd \in {TheWorldWindow, MissingWorldWindow} : NewArcBallCamera(wwd)
    \/ \E wwd \in {TheWorldWindow, MissingWorldWindow} : NewFirstPersonCamera(wwd)
    \/ \E camera \in Allocated(Heap) \cup {Missing} : NewNavigator(camera)
    \/ \E c \in Allocated(Heap) : ApplyLimits(c)
    \/ \E c \in Allocated(Heap), m \in {TheMatrix, MissingMatrix} : CreateViewMatrix(c, m)
    \/ \E c \in Allocated(Heap) :
          \E camera \in (OfKind(Heap, cameras[c].kind) \ {c}) \cup {Missing} : Copy(c, camera)
    \/ \E c \in Allocated(Heap) :
          \E camera \in (OfKind(Heap, cameras[c].kind) \ {c}) \cup {Missing} : Clone(c, camera)
    \/ \E c \in OfKind(Heap, ArcBall), camera \in OfKind(Heap, FirstPerson) \cup {Missing} :
          ToFirstPerson(c, camera)
    \/ \E c \in OfKind(Heap, FirstPerson), camera \in OfKind(Heap, ArcBall) \cup {Missing} :
          ToArcBall(c, camera)
    \/ \E c \in Allocated(Heap), field \in FieldNames :
          \E v \in AssignedValues(field) : SetField(c, field, v)
    \/ SetProjection
    \/ \E camera \in Allocated(Heap) \cup {Missing} : NavigatorSetCamera(camera)
    \/ \E c \in Allocated(Heap) : NavigatorSetLookAtLocation(cameras[c].position)
    \/ \E field \in {"range", "heading", "tilt", "roll"} :
          \E v \in AssignedValues(field) : NavigatorSetField(field, v)
    \/ \E camera \in OfKind(Heap, FirstPerson) \cup {Missing} : GetAsFirstPersonCamera(camera)
    \/ \E camera \in OfKind(Heap, ArcBall) \cup {Missing} : GetAsArcBallCamera(camera)

Spec == Init /\ [][Next]_vars

(***************************************************************************)
(* applyLimits as a function of the fields: one camera of either kind,     *)
(* holding any of the values below, under either projection.               *)
(***************************************************************************)
Turns == (0 - MaxTurns) .. MaxTurns

LatitudeInputs == {-100, 30, 100}
LongitudeInputs == {b + 360 * k : b \in {-175, 180}, k \in Turns}
AltitudeInputs == {-1000, 1000, 40075017}
HeadingInputs == {b + 360 * k : b \in {10, 180}, k \in Turns}
TiltInputs == {-100, -25, 70, 100}
RangeInputs == {-6000, 6000000, 40075017}
RollInputs == {b + 360 * k : b \in {90, 180}, k \in Turns}

InitLimits ==
    /\ \E lat \in LatitudeInputs, lon \in LongitudeInputs, alt \in AltitudeInputs,
          h \in HeadingInputs, t \in TiltInputs, r \in RollInputs :
          \/ \E rng \in RangeInputs :
                SetHeapInit(WithFields(ArcBallCamera(EmptyHeap, 1, TheWorldWindow), 1,
                    [latitude |-> lat, longitude |-> lon, altitude |-> alt, heading |-> h,
                     tilt |-> t, range |-> rng, roll |-> r]))
          \/ SetHeapInit(WithFields(FirstPersonCamera(EmptyHeap, 1, TheWorldWindow), 1,
                    [latitude |-> lat, longitude |-> lon, altitude |-> alt, tilt |-> t,
                     heading |-> h, roll |-> r]))
    /\ is2D \in BOOLEAN
    /\ navigator = NoNavigator
    /\ matrix = IdentityMatrix
    /\ writes = 0
    /\ calls = 0
    /\ ret = Ret("init", Missing, Missing, Ok, None, None, Missing)

NextLimits == \E c \in Allocated(Heap) : ApplyLimits(c)

SpecLimits == InitLimits /\ [][NextLimits]_vars

(***************************************************************************)
(* Properties.                                                             *)
(***************************************************************************)
\* The camera the last call was made on, and its fields now.
This == ret.this
Now == Fields(Heap, ret.this)
IsArcBall(c) == cameras[c].kind = ArcBall
IsFirstPerson(c) == cameras[c].kind = FirstPerson

\* In (-180, 180].
Normalized(a) == -180 < a /\ a <= 180

\* a and b differ by a multiple of 360.
SameAngle(a, b) == (a - b) % 360 = 0

\* The point of [lo, hi] nearest to v.
Nearest(v, lo, hi) == IF v < lo THEN lo ELSE IF v > hi THEN hi ELSE v

\* applyLimits' comment: a valid range is 1 to 40075016 for 2D projections.
MaxRange2D == 40075016

\* C1: applyLimits is idempotent on both camera types and in both globe modes:
\* in every state a call of applyLimits has left, a second call changes nothing.
C1_ApplyLimitsIdempotent ==
    ret.op = "applyLimits" => applyLimits(Heap, This, is2D) = Heap

\* C1's case: a first call that changed an ArcBallCamera under a 2D globe.
C1_Witness ==
    /\ ret.op = "applyLimits"
    /\ IsArcBall(This)
    /\ is2D
    /\ ret.pre.range > MaxRange2D
    /\ ret.pre.tilt = 70
    /\ ret.pre.heading = 370

ExampleArcBall ==
    [latitude |-> 100, longitude |-> 185, altitude |-> -1000, heading |-> 370,
     tilt |-> 100, range |-> -6000, roll |-> -270]
ExpectedArcBall ==
    [latitude |-> 90, longitude |-> -175, altitude |-> 0, heading |-> 10,
     tilt |-> 90, range |-> 1, roll |-> 90]
ExampleFirstPerson ==
    [latitude |-> 100, longitude |-> 185, altitude |-> -1000, tilt |-> 100,
     heading |-> 370, roll |-> -270]
ExpectedFirstPerson ==
    [latitude |-> 90, longitude |-> -175, altitude |-> 0, tilt |-> 90,
     heading |-> 10, roll |-> 90]

\* The rule for the fields both cameras have in common, whatever the globe's mode.
CommonRule ==
    /\ Now.latitude = Nearest(ret.pre.latitude, -90, 90)
    /\ Now.altitude = Nearest(ret.pre.altitude, 0, NumberMaxValue)
    /\ SameAngle(Now.longitude, ret.pre.longitude)
    /\ SameAngle(Now.heading, ret.pre.heading)
    /\ SameAngle(Now.roll, ret.pre.roll)
    /\ IsFirstPerson(This) => /\ Now.tilt = Nearest(ret.pre.tilt, -90, 90)
                              /\ ret.pre = ExampleFirstPerson => Now = ExpectedFirstPerson

\* C3 as claimed: every clamped field goes to the nearest bound of its domain, an
\* ArcBallCamera's tilt to [0, 90] and its range to [1, oo), and the example
\* gives 90, -175, 0, 10, 90, 1, 90 on an ArcBallCamera.
C3_AsClaimed ==
    ret.op = "applyLimits" =>
        /\ CommonRule
        /\ IsArcBall(This) => /\ Now.tilt = Nearest(ret.pre.tilt, 0, 90)
                              /\ Now.range = Nearest(ret.pre.range, 1, NumberMaxValue)
                              /\ ret.pre = ExampleArcBall => Now = ExpectedArcBall

\* C3, amended: as claimed while the globe is 3D; while it is 2D an
\* ArcBallCamera's tilt becomes 0 and its range goes to the nearest bound of
\* [1, 40075016], so that the example gives tilt 0 there.
C3_FieldRules ==
    ret.op = "applyLimits" =>
        /\ CommonRule
        /\ IsArcBall(This) /\ ~is2D =>
              /\ Now.tilt = Nearest(ret.pre.tilt, 0, 90)
              /\ Now.range = Nearest(ret.pre.range, 1, NumberMaxValue)
              /\ ret.pre = ExampleArcBall => Now = ExpectedArcBall
        /\ IsArcBall(This) /\ is2D =>
              /\ Now.tilt = 0
              /\ Now.range = Nearest(ret.pre.range, 1, MaxRange2D)
              /\ ret.pre = ExampleArcBall => Now = [ExpectedArcBall EXCEPT !.tilt = 0]

\* C3's case: the example, on an ArcBallCamera under a 3D globe.
C3_Witness ==
    /\ ret.op = "applyLimits"
    /\ IsArcBall(This)
    /\ ~is2D
    /\ ret.pre = ExampleArcBall
    /\ Now = ExpectedArcBall

\* C4: under a 2D globe ArcBallCamera.applyLimits leaves tilt 0 and range in
\* [1, 2 pi equatorialRadius], a range above the cap at the cap and one below 1
\* at 1; under a 3D globe tilt is only clamped to [0, 90] and range has no cap.
C4_FlatModeLimits ==
    (ret.op = "applyLimits" /\ IsArcBall(This)) =>
        IF is2D
        THEN /\ Now.tilt = 0
             /\ 1 <= Now.range /\ Now.range <= MaxRange2D
             /\ ret.pre.range > MaxRange2D => Now.range = MaxRange2D
             /\ ret.pre.range < 1 => Now.range = 1
        ELSE /\ Now.tilt = Nearest(ret.pre.tilt, 0, 90)
             /\ ret.pre.range >= 1 => Now.range = ret.pre.range
             /\ ret.pre.range < 1 => Now.range = 1

\* C4's case: a tilted camera beyond the cap, under a 2D globe.
C4_Witness ==
    /\ ret.op = "applyLimits"
    /\ IsArcBall(This)
    /\ is2D
    /\ ret.pre.tilt = 100
    /\ ret.pre.range = MaxRange2D + 1
    /\ Now.range = MaxRange2D

\* The fields applyLimits makes of f on a camera of c's kind.
Limited(c, f) ==
    IF IsArcBall(c) THEN ArcBallCameraApplyLimits(f, is2D) ELSE FirstPersonCameraApplyLimits(f, is2D)

\* f lies in the domains applyLimits establishes on a camera of c's kind.
InDomain(c, f) ==
    /\ -90 <= f.latitude /\ f.latitude <= 90
    /\ f.altitude >= 0
    /\ Normalized(f.longitude) /\ Normalized(f.heading) /\ Normalized(f.roll)
    /\ IF IsArcBall(c)
       THEN /\ 0 <= f.tilt /\ f.tilt <= 90
            /\ f.range >= 1
            /\ is2D => f.tilt = 0 /\ f.range <= MaxRange2D
       ELSE -90 <= f.tilt /\ f.tilt <= 90

\* The view of the fields f of camera c.
View(c, f) == IF IsArcBall(c) THEN ArcBallView(f) ELSE FirstPersonView(f)

\* C5: after createViewMatrix(matrix) returns, the camera's fields are what
\* applyLimits alone makes of the fields before the call, the matrix is the view
\* of those fields, which lie in their domains, and the matrix returned is the
\* one passed in.
C5_ViewMatrixAppliesLimits ==
    (ret.op = "createViewMatrix" /\ ret.status = Ok) =>
        /\ Now = Limited(This, ret.pre)
        /\ InDomain(This, Now)
        /\ matrix = View(This, Now)
        /\ ret.value = ret.arg
        /\ ret.value = TheMatrix

\* C5's case: an ArcBallCamera holding the out-of-domain example, whose raw view
\* differs from the one built.
C5_Witness ==
    /\ ret.op = "createViewMatrix"
    /\ ret.status = Ok
    /\ IsArcBall(This)
    /\ ret.pre = ExampleArcBall
    /\ matrix # ArcBallView(ret.pre)

\* The heap a step leaves.
HeapNext == [cameras |-> cameras', positions |-> positions', scratch |-> scratch']

\* The calls with a required argument, and whether the last call lacked it.
ArgumentCalls == {"createViewMatrix", "toFirstPerson", "toArcBall", "copy"}
LacksArgument(r) ==
    /\ r.op \in ArgumentCalls
    /\ IF r.op = "createViewMatrix" THEN r.arg = MissingMatrix ELSE r.arg = Missing

\* C6: createViewMatrix with no matrix, toFirstPerson and toArcBall with no
\* camera and copy with no source raise ArgumentError, and the step that raises
\* it changes no field of any camera, no scratch buffer and no matrix.
C6_MissingArgumentNoMutation ==
    [][LacksArgument(ret') =>
          /\ ret'.status = ArgumentError
          /\ Fields(HeapNext, ret'.this) = ret'.pre
          /\ Fields(HeapNext, ret'.this) = Fields(Heap, ret'.this)
          /\ UNCHANGED <<cameras, positions, scratch, matrix>>]_vars

\* C6's case: toFirstPerson() on an ArcBallCamera that still holds the
\* out-of-domain example.
C6_Witness ==
    /\ ret.op = "toFirstPerson"
    /\ ret.status = ArgumentError
    /\ ret.arg = Missing
    /\ ret.pre = ExampleArcBall
    /\ Now = ExampleArcBall

Constructors == {"new ArcBallCamera", "new FirstPersonCamera"}

\* C7: a camera constructed without a globe context and a Navigator constructed
\* without a camera raise ArgumentError and make no object, so that every camera
\* there is has a globe context.
C7_ConstructionRequiresCollaborator ==
    /\ [](\A c \in Allocated(Heap) : cameras[c].wwd = TheWorldWindow)
    /\ [][/\ (ret'.op \in Constructors /\ ret'.arg = MissingWorldWindow) =>
               /\ ret'.status = ArgumentError
               /\ UNCHANGED <<cameras, positions, scratch, navigator>>
          /\ (ret'.op = "new Navigator" /\ ret'.arg = Missing) =>
               /\ ret'.status = ArgumentError
               /\ UNCHANGED <<cameras, positions, scratch, navigator>>]_vars

\* C7's case: new ArcBallCamera() has thrown and the third camera is still not there.
C7_Witness ==
    /\ ret.op = "new ArcBallCamera"
    /\ ret.arg = MissingWorldWindow
    /\ ret.status = ArgumentError
    /\ Allocated(Heap) = {1, 2}

\* No two of the cameras in S hold the same Position object.
PositionsDistinct(h, S) ==
    \A c \in S : \A d \in S \ {c} : h.cameras[c].position # h.cameras[d].position

\* f is what applyLimits leaves it, with a tilt strictly inside (0, 90).
WithinLimitsNotExtreme(c, f) ==
    /\ Limited(c, f) = f
    /\ 0 < f.tilt /\ f.tilt < 90

C9_ConversionWritesOnlyDest ==
    [][(ret'.op \in {"toFirstPerson", "toArcBall"} /\ ret'.status = Ok) =>
          /\ \A d \in Allocated(Heap) \ {ret'.this, ret'.arg} :
                Fields(HeapNext, d) = Fields(Heap, d)
          /\ Fields(HeapNext, ret'.this) = Limited(ret'.this, Fields(Heap, ret'.this))]_vars

\* C10 as claimed: no two cameras hold the same Position object.
C10_NoSharedPosition == PositionsDistinct(Heap, Allocated(Heap))

\* C11 as claimed: a Navigator that has been constructed holds a camera of one of
\* the two models, whatever has been assigned to its camera property.
C11_NavigatorHoldsCamera ==
    navigator.constructed =>
        /\ navigator.camera # Missing
        /\ navigator.camera \in Allocated(Heap)
        /\ cameras[navigator.camera].kind \in {ArcBall, FirstPerson}

GetAsCalls == {"getAsFirstPersonCamera", "getAsArcBallCamera"}

\* The model of camera a getAs... call is asked for.
Requested(op) == IF op = "getAsFirstPersonCamera" THEN FirstPerson ELSE ArcBall

\* The heap in which the camera a getAs... call returns exists: as it is when out
\* is supplied, with a camera of the requested model constructed otherwise.
WithOut(h, op, out, target, wwd) ==
    IF out # Missing THEN h
    ELSE IF op = "getAsFirstPersonCamera" THEN FirstPersonCamera(h, target, wwd)
    ELSE ArcBallCamera(h, target, wwd)

\* The conversion of the active camera into target that op stands for.
Conversion(h, op, active, target, flat) ==
    IF op = "getAsFirstPersonCamera"
    THEN toFirstPerson(h, active, target, flat)
    ELSE toArcBall(h, active, target, flat)

\* C12: getAsFirstPersonCamera(out) and getAsArcBallCamera(out) return out, or a
\* camera of the requested model that was not there before; when the active camera
\* is of the requested model the result holds the fields the active camera held
\* and the active camera is unchanged, otherwise the result holds what the active
\* camera's toFirstPerson / toArcBall writes into it.
C12_GetAsCopiesOrConverts ==
    [][(ret'.op \in GetAsCalls /\ ret'.status = Ok) =>
          LET op     == ret'.op
              active == ret'.this
              out    == ret'.arg
              target == ret'.value
          IN  /\ out # Missing => target = out
              /\ out = Missing =>
                    /\ target \notin Allocated(Heap)
                    /\ target \in Allocated(HeapNext)
                    /\ cameras'[target].kind = Requested(op)
                    /\ cameras'[target].wwd = cameras[active].wwd
              /\ IF cameras[active].kind = Requested(op)
                 THEN /\ Fields(HeapNext, target) = Fields(Heap, active)
                      /\ Fields(HeapNext, active) = Fields(Heap, active)
                 ELSE Fields(HeapNext, target) =
                         Fields(Conversion(WithOut(Heap, op, out, target, cameras[active].wwd),
                                           op, active, target, is2D), target)]_vars

\* C12's case: getAsFirstPersonCamera() on a Navigator whose camera is the
\* ArcBallCamera of the conversion test has returned a new FirstPersonCamera.
C12_Witness ==
    /\ ret.op = "getAsFirstPersonCamera"
    /\ ret.status = Ok
    /\ ret.arg = Missing
    /\ ret.value = 3
    /\ IsArcBall(ret.this)
    /\ IsFirstPerson(3)
    /\ ret.pre = ArcBallTestPose
    /\ Fields(Heap, 3).tilt = -20
    /\ Fields(Heap, 3).altitude = 7000000

\* C12's other case: getAsArcBallCamera(out) on the same Navigator has copied the
\* active camera's fields, out of their limits, into out.
C12_WitnessCopy ==
    /\ ret.op = "getAsArcBallCamera"
    /\ ret.status = Ok
    /\ ret.arg = 3
    /\ ret.this = 1
    /\ Fields(Heap, 3) = ArcBallLimitsPose

\* C13: after a.copy(b) a holds the fields b held, b holds them still, nothing is
\* normalized and a is returned; clone() returns a camera other than the receiver,
\* of the same model and WorldWindow, with a Position object of its own and the
\* receiver's fields; clone(dest) returns dest holding the receiver's fields; the
\* receiver of clone is unchanged.
C13_CopyAndCloneAreValueCopies ==
    /\ (ret.op = "copy" /\ ret.status = Ok) =>
          /\ Now = ret.argPre
          /\ Fields(Heap, ret.arg) = ret.argPre
          /\ ret.value = This
    /\ ret.op = "clone" =>
          /\ Fields(Heap, ret.value) = ret.pre
          /\ Now = ret.pre
          /\ cameras[ret.value].kind = cameras[This].kind
          /\ cameras[ret.value].wwd = cameras[This].wwd
          /\ IF ret.arg = Missing
             THEN /\ ret.value # This
                  /\ cameras[ret.value].position # cameras[This].position
             ELSE ret.value = ret.arg

\* C13's case: a.copy(b) with b holding the out-of-limits pose has left it in a as it is.
C13_Witness ==
    /\ ret.op = "copy"
    /\ ret.status = Ok
    /\ ret.argPre = ArcBallLimitsPose
    /\ ret.pre # ArcBallLimitsPose
    /\ Now = ArcBallLimitsPose

\* C13's other case: clone() of the out-of-limits FirstPersonCamera has made camera 3.
C13_WitnessClone ==
    /\ ret.op = "clone"
    /\ ret.arg = Missing
    /\ ret.value = 3
    /\ Fields(Heap, 3) = FirstPersonLimitsPose

\* The heap h with camera c's scratch buffers as its constructor made them.
FreshScratch(h, c) ==
    IF h.cameras[c].kind = ArcBall
    THEN [h EXCEPT !.scratch[c] = ArcBallCamera(EmptyHeap, c, TheWorldWindow).scratch[c]]
    ELSE [h EXCEPT !.scratch[c] = FirstPersonCamera(EmptyHeap, c, TheWorldWindow).scratch[c]]

ScratchCalls == {"createViewMatrix", "toFirstPerson", "toArcBall"}

\* C14: what createViewMatrix, toFirstPerson and toArcBall produce does not depend
\* on the receiver's scratch buffers: each such call leaves in the matrix, or in
\* the output camera, what it would have left had the receiver, with the same
\* fields, come fresh from its constructor.
C14_ScratchLeaksNothing ==
    [][(ret'.op \in ScratchCalls /\ ret'.status = Ok) =>
          LET c     == ret'.this
              fresh == FreshScratch(Heap, c)
          IN  /\ ret'.op = "createViewMatrix" =>
                    /\ matrix' = createViewMatrix(fresh, c, is2D).matrix
                    /\ Fields(HeapNext, c) = Fields(createViewMatrix(fresh, c, is2D).heap, c)
              /\ ret'.op = "toFirstPerson" =>
                    Fields(HeapNext, ret'.arg) = Fields(toFirstPerson(fresh, c, ret'.arg, is2D), ret'.arg)
              /\ ret'.op = "toArcBall" =>
                    Fields(HeapNext, ret'.arg) = Fields(toArcBall(fresh, c, ret'.arg, is2D), ret'.arg)]_vars

\* C14's case: createViewMatrix on a camera whose scratch matrix still holds the
\* view of an earlier conversion, made with other values than it holds now.
C14_Witness ==
    /\ ret.op = "createViewMatrix"
    /\ ret.status = Ok
    /\ scratch[This].matrix # IdentityMatrix
    /\ scratch[This].matrix # matrix
    /\ matrix = View(This, Now)

\* C14's other case: a second conversion by a camera whose fields were changed
\* after its first.
C14_WitnessConversion ==
    /\ ret.op = "toFirstPerson"
    /\ ret.status = Ok
    /\ calls = 3
    /\ writes = 1
    /\ ret.pre.latitude = 60
    /\ scratch[This].matrix = ArcBallView(Now)

\* C20: after toFirstPerson(dest) or toArcBall(dest), dest's roll is the roll the
\* source held before the call, wrapped, which is the roll the source holds now.
C20_RollPassesThrough ==
    (ret.op \in {"toFirstPerson", "toArcBall"} /\ ret.status = Ok) =>
        /\ Fields(Heap, ret.arg).roll = normalizedDegrees(ret.pre.roll)
        /\ Fields(Heap, ret.arg).roll = Now.roll
        /\ SameAngle(Fields(Heap, ret.arg).roll, ret.pre.roll)

\* C20's case: toArcBall from a FirstPersonCamera holding roll -270 into a camera
\* that held another roll has left roll 90.
C20_Witness ==
    /\ ret.op = "toArcBall"
    /\ ret.status = Ok
    /\ ret.pre.roll = -270
    /\ ret.argPre.roll # 90
    /\ Fields(Heap, ret.arg).roll = 90

\* C17: FirstPersonCamera.applyLimits leaves the same fields under a 2D globe as
\* under a 3D globe; under either, tilt is the nearest point of [-90, 90], not 0,
\* and altitude is only kept from being negative, not capped.
C17_FirstPersonLimitsIgnoreProjection ==
    (ret.op = "applyLimits" /\ IsFirstPerson(This)) =>
        /\ Now = FirstPersonCameraApplyLimits(ret.pre, ~is2D)
        /\ FirstPersonCameraApplyLimits(ret.pre, TRUE) = FirstPersonCameraApplyLimits(ret.pre, FALSE)
        /\ Now.tilt = Nearest(ret.pre.tilt, -90, 90)
        /\ Now.altitude = Nearest(ret.pre.altitude, 0, NumberMaxValue)

\* C17's case: a tilted FirstPersonCamera higher than 2 pi equatorialRadius,
\* under a 2D globe, has kept its tilt and its altitude.
C17_Witness ==
    /\ ret.op = "applyLimits"
    /\ IsFirstPerson(This)
    /\ is2D
    /\ ret.pre.tilt = 70
    /\ ret.pre.altitude > MaxRange2D
    /\ Now.tilt = 70
    /\ Now.altitude = ret.pre.altitude

(***************************************************************************)
(* The cameras of the nadir tests: an ArcBallCamera and a FirstPersonCamera *)
(* looking straight down on a 3D globe, then view matrices and conversions. *)
(***************************************************************************)
NadirLocations == {<<0, 0>>, <<45, -100>>}
NadirTargetAltitudes == {0, 1000000}
NadirRanges == {1, 6000000, 10000000}
NadirEyeAltitudes == {0, 6000000, 10000000}

ArcBallNadirPose(location, altitude, range) ==
    [latitude |-> location[1], longitude |-> location[2], altitude |-> altitude,
     heading |-> 0, tilt |-> 0, range |-> range, roll |-> 0]

FirstPersonNadir(location, altitude) ==
    [latitude |-> location[1], longitude |-> location[2], altitude |-> altitude,
     tilt |-> -90, heading |-> 0, roll |-> 0]

InitNadir ==
    /\ \E la \in NadirLocations, alt \in NadirTargetAltitudes, r \in NadirRanges,
          lf \in NadirLocations, h \in NadirEyeAltitudes :
          SetHeapInit(WithFields(WithFields(
              FirstPersonCamera(ArcBallCamera(EmptyHeap, 1, TheWorldWindow), 2, TheWorldWindow),
              1, ArcBallNadirPose(la, alt, r)), 2, FirstPersonNadir(lf, h)))
    /\ is2D = FALSE
    /\ navigator = NoNavigator
    /\ matrix = IdentityMatrix
    /\ writes = 0
    /\ calls = 0
    /\ ret = Ret("init", Missing, Missing, Ok, None, None, Missing)

NextNadir ==
    \/ \E c \in Allocated(Heap) : CreateViewMatrix(c, TheMatrix)
    \/ \E c \in OfKind(Heap, ArcBall), camera \in OfKind(Heap, FirstPerson) :
          ToFirstPerson(c, camera)
    \/ \E c \in OfKind(Heap, FirstPerson), camera \in OfKind(Heap, ArcBall) :
          ToArcBall(c, camera)

SpecNadir == InitNadir /\ [][NextNadir]_vars

\* f looks straight down, north up, no roll: an ArcBallCamera's tilt is 0 there,
\* a FirstPersonCamera's -90.
ArcBallAtNadir(f) == f.heading = 0 /\ f.tilt = 0 /\ f.roll = 0
FirstPersonAtNadir(f) == f.heading = 0 /\ f.tilt = -90 /\ f.roll = 0
OverOrigin(f) == f.latitude = 0 /\ f.longitude = 0

\* C15: the view matrix of a FirstPersonCamera at latitude 0, longitude 0,
\* altitude 0, heading 0, tilt -90, roll 0 has the identity rotation and the
\* translation (0, 0, -R); at altitude h the translation is (0, 0, -(R + h)).
C15_FirstPersonNadirMatrix ==
    (/\ ret.op = "createViewMatrix" /\ ret.status = Ok
     /\ IsFirstPerson(This)
     /\ FirstPersonAtNadir(ret.pre) /\ OverOrigin(ret.pre)) =>
        /\ IdentityRotation(matrix)
        /\ Translation(matrix) = Vec3(0, 0, 0 - (equatorialRadius + ret.pre.altitude))
        /\ ret.pre.altitude = 0 => Translation(matrix) = Vec3(0, 0, 0 - equatorialRadius)

\* C15's case: the view matrix test of the FirstPersonCamera, at altitude 0.
C15_Witness ==
    /\ ret.op = "createViewMatrix"
    /\ ret.status = Ok
    /\ IsFirstPerson(This)
    /\ ret.pre = FirstPersonNadir(<<0, 0>>, 0)
    /\ IdentityRotation(matrix)
    /\ Translation(matrix) = Vec3(0, 0, -6378137)

\* C16 as claimed: the view matrix of an ArcBallCamera at latitude 0, longitude 0
\* and any altitude, heading 0, tilt 0, roll 0 and range r has the identity
\* rotation and the translation (0, 0, -(R + r)).
C16_AsClaimed ==
    (/\ ret.op = "createViewMatrix" /\ ret.status = Ok
     /\ IsArcBall(This)
     /\ ArcBallAtNadir(ret.pre) /\ OverOrigin(ret.pre)) =>
        /\ IdentityRotation(matrix)
        /\ Translation(matrix) = Vec3(0, 0, 0 - (equatorialRadius + ret.pre.range))

\* C16, amended: the translation is (0, 0, -(R + alt + r)), the target's altitude
\* included, which is (0, 0, -(R + r)) for a target at altitude 0.
C16_ArcBallNadirMatrix ==
    (/\ ret.op = "createViewMatrix" /\ ret.status = Ok
     /\ IsArcBall(This)
     /\ ArcBallAtNadir(ret.pre) /\ OverOrigin(ret.pre)) =>
        /\ IdentityRotation(matrix)
        /\ Translation(matrix) =
              Vec3(0, 0, 0 - (equatorialRadius + ret.pre.altitude + ret.pre.range))
        /\ ret.pre.altitude = 0 =>
              Translation(matrix) = Vec3(0, 0, 0 - (equatorialRadius + ret.pre.range))

\* C16's case: a target at altitude 1000000 seen from range 10000000; the view
\* matrix test itself has altitude 0.
C16_Witness ==
    /\ ret.op = "createViewMatrix"
    /\ ret.status = Ok
    /\ IsArcBall(This)
    /\ ret.pre = ArcBallNadirPose(<<0, 0>>, 1000000, 10000000)
    /\ IdentityRotation(matrix)
    /\ Translation(matrix) = Vec3(0, 0, -17378137)

\* C18: toFirstPerson of an ArcBallCamera with tilt 0, heading 0, roll 0, a target
\* at altitude 0 and range r leaves the output at the target's latitude and
\* longitude, altitude r, heading 0, tilt -90, roll 0; with the target at altitude
\* alt the output's altitude is alt + r.
C18_NadirToFirstPerson ==
    (/\ ret.op = "toFirstPerson" /\ ret.status = Ok
     /\ ArcBallAtNadir(ret.pre)) =>
        /\ Fields(Heap, ret.arg) =
              [latitude |-> ret.pre.latitude, longitude |-> ret.pre.longitude,
               altitude |-> ret.pre.altitude + ret.pre.range,
               tilt |-> -90, heading |-> 0, roll |-> 0]
        /\ ret.pre.altitude = 0 => Fields(Heap, ret.arg).altitude = ret.pre.range

\* C18's case: the nadir conversion test, into a camera that was elsewhere.
C18_Witness ==
    /\ ret.op = "toFirstPerson"
    /\ ret.status = Ok
    /\ ret.pre = ArcBallNadirPose(<<0, 0>>, 0, 10000000)
    /\ ret.argPre = FirstPersonNadir(<<45, -100>>, 6000000)
    /\ Fields(Heap, ret.arg) = FirstPersonNadir(<<0, 0>>, 10000000)

\* C19: toArcBall of a FirstPersonCamera at altitude h with tilt -90, heading 0,
\* roll 0 into an ArcBallCamera whose range is h leaves the output's target at the
\* camera's latitude and longitude and altitude 0, with heading 0, tilt 0, roll 0
\* and range h.
C19_NadirToArcBall ==
    (/\ ret.op = "toArcBall" /\ ret.status = Ok
     /\ FirstPersonAtNadir(ret.pre)
     /\ ret.argPre.range = ret.pre.altitude) =>
        Fields(Heap, ret.arg) =
           [latitude |-> ret.pre.latitude, longitude |-> ret.pre.longitude, altitude |-> 0,
            heading |-> 0, tilt |-> 0, range |-> ret.pre.altitude, roll |-> 0]

\* C19's case: the nadir conversion test, altitude and range 10000000, into a
\* camera whose target was elsewhere and above the ground.
C19_Witness ==
    /\ ret.op = "toArcBall"
    /\ ret.status = Ok
    /\ ret.pre = FirstPersonNadir(<<0, 0>>, 10000000)
    /\ ret.argPre = ArcBallNadirPose(<<45, -100>>, 1000000, 10000000)
    /\ Fields(Heap, ret.arg) = ArcBallNadirPose(<<0, 0>>, 0, 10000000)


\* C21 as claimed: whatever range the output ArcBallCamera holds before
\* toArcBall, below 1 included, the range it holds when toArcBall returns is the
\* distance by which the forward ray was advanced to place its target, which is
\* the range the call found (arcBallCamera.range at pointAt).
C21_RangeIsDistanceUsed ==
    (ret.op = "toArcBall" /\ ret.status = Ok) =>
        /\ Fields(Heap, ret.arg).range = ret.argPre.range
        /\ scratch[This].vector =
              pointAt(scratch[This].rayOrigin, scratch[This].rayDirection,
                      Fields(Heap, ret.arg).range)

\* Where C21 fails: toArcBall into the ArcBallCamera of the limits test, range
\* -6000; the target was placed -6000 along the ray and the range returned is 1.
C21_RangeClampedAfterUse ==
    /\ ret.op = "toArcBall"
    /\ ret.status = Ok
    /\ ret.argPre.range = -6000
    /\ Fields(Heap, ret.arg).range = 1
    /\ scratch[This].vector =
          pointAt(scratch[This].rayOrigin, scratch[This].rayDirection, -6000)
    /\ scratch[This].vector #
          pointAt(scratch[This].rayOrigin, scratch[This].rayDirection, 1)

=============================================================================
